---- MODULE Spec2Model ----
(***************************************************************************)
(* Helsinki Bike Route Viewer (main.py).                                   *)
(*                                                                         *)
(* The module-level code loads 2021-04.csv into df, derives Weekday and    *)
(* Hour, builds the sorted station lists and the synthetic station_coords  *)
(* table and lays out the page.  The single Dash callback update_dashboard *)
(* then maps the six widget values to (stats, map children, figure).       *)
(*                                                                         *)
(* Encoding.  A missing cell (NaN / NaT / None) is the empty tuple; a      *)
(* present scalar v is <<v>>.  A station name is the tuple of its code     *)
(* points, so the empty csv cell (which read_csv turns into NaN) is the    *)
(* empty tuple as well.  A timestamp is the number of minutes since        *)
(* 2021-04-01 00:00, a date the number of days since 2021-04-01.           *)
(* Distances are metres, durations seconds, averages exact fractions.      *)
(***************************************************************************)
EXTENDS Integers, Sequences, FiniteSets, TLC

VARIABLES csv, pc, df, departure_stations, return_stations, station_coords,
          query, trip_df, result, first, varied

\* csv is the content of 2021-04.csv; pc is "start" before the module-level
\* code has run, "serving" once the layout is built, "interactive" after the
\* page-load callback and "failed" if the layout raised.  query, trip_df and
\* result are the arguments, the filtered frame and the return value of the
\* latest update_dashboard call.  first and varied are history variables: the
\* query and result of the page-load call, and whether a different query
\* has been issued since.
vars == <<csv, pc, df, departure_stations, return_stations, station_coords,
          query, trip_df, result, first, varied>>

(***************************************************************************)
(* Bounds and input samples                                                *)
(***************************************************************************)
MaxRows == 2

NaN == <<>>

Some(v) == <<v>>

isna(c) == c = NaN

\* the station names are "B" = <<66>> and "AB" = <<65, 66>>; the longer one
\* sorts first
\* station cells of a row: <<departure, return>>
StationCells == {<<<<65, 66>>, <<66>>>>, <<<<66>>, <<65, 66>>>>, <<<<66>>, <<66>>>>,
                 <<NaN, <<65, 66>>>>, <<<<65, 66>>, NaN>>}

\* Departure cells as <<day, hour, minute>> text fields; <<0, 24, 0>> is a
\* malformed time and NaN an empty cell
DepartureCells == {<<0, 0, 0>>, <<0, 10, 30>>, <<1, 0, 0>>, <<0, 24, 0>>, NaN}

\* <<distance, duration>> cells of a row
MeasureCells == {<<Some(1000), Some(300)>>, <<NaN, Some(600)>>,
                 <<Some(3000), NaN>>, <<NaN, NaN>>}

SliderHours == {0, 10}

CsvRow(d, r, t, m, s) ==
    [dep |-> d, ret |-> r, Departure |-> t, dist |-> m, dur |-> s]

\* rows of the file: a reference trip "AB" -> "B" and its variations in the
\* station cells, in the Departure cell, or in the measurements
CsvRows ==
    {CsvRow(c[1], c[2], <<0, 0, 0>>, Some(1000), Some(300)) : c \in StationCells}
    \cup {CsvRow(<<65, 66>>, <<66>>, t, Some(1000), Some(300)) : t \in DepartureCells}
    \cup {CsvRow(<<65, 66>>, <<66>>, <<0, 0, 0>>, m[1], m[2]) : m \in MeasureCells}

RECURSIVE SeqsUpTo(_, _)
SeqsUpTo(S, n) ==
    IF n = 0 THEN {<<>>}
    ELSE LET shorter == SeqsUpTo(S, n - 1)
         IN  shorter \cup {Append(q, x) : q \in {p \in shorter : Len(p) = n - 1}, x \in S}

(***************************************************************************)
(* Generic sequence helpers                                                *)
(***************************************************************************)
Range(s) == {s[i] : i \in 1..Len(s)}

RECURSIVE SelectRows(_, _, _)
\* boolean-mask indexing, df[mask]: the rows whose mask entry is TRUE, in order
SelectRows(rows, mask, i) ==
    IF i > Len(rows) THEN <<>>
    ELSE IF mask[i] THEN <<rows[i]>> \o SelectRows(rows, mask, i + 1)
         ELSE SelectRows(rows, mask, i + 1)

RECURSIVE dropna(_)
dropna(col) ==
    IF col = <<>> THEN <<>>
    ELSE IF isna(Head(col)) THEN dropna(Tail(col))
         ELSE <<Head(col)>> \o dropna(Tail(col))

RECURSIVE unique(_)
\* pandas unique(): distinct values in order of first appearance
unique(col) ==
    IF col = <<>> THEN <<>>
    ELSE LET init == unique(SubSeq(col, 1, Len(col) - 1))
             last == col[Len(col)]
         IN  IF last \in Range(init) THEN init ELSE Append(init, last)

RECURSIVE StrLess(_, _)
\* Python str comparison: lexicographic by code point
StrLess(a, b) ==
    IF b = <<>> THEN FALSE
    ELSE IF a = <<>> THEN TRUE
    ELSE IF Head(a) # Head(b) THEN Head(a) < Head(b)
    ELSE StrLess(Tail(a), Tail(b))

RECURSIVE insert(_, _)
insert(x, s) ==
    IF s = <<>> THEN <<x>>
    ELSE IF StrLess(Head(s), x) THEN <<Head(s)>> \o insert(x, Tail(s))
         ELSE <<x>> \o s

RECURSIVE sort(_)
\* ndarray.sort() on an array of str
sort(s) == IF s = <<>> THEN <<>> ELSE insert(Head(s), sort(Tail(s)))

\* np.unique replaced by an order-preserving unique
np_unique_unsorted(s) == unique(s)

np_unique(s) == sort(unique(s))

(***************************************************************************)
(* Module load: lines 9-26                                                 *)
(***************************************************************************)
MinutesPerDay == 1440

\* a parser that substitutes the epoch for a value it cannot parse
to_datetime_epoch(cell) ==
    IF Len(cell) = 3 /\ cell[1] \in 0..29 /\ cell[2] \in 0..23 /\ cell[3] \in 0..59
    THEN Some(cell[1] * MinutesPerDay + cell[2] * 60 + cell[3])
    ELSE Some(0)

\* pd.to_datetime(..., format='mixed', errors='coerce') on a Departure cell
to_datetime(cell) ==
    IF Len(cell) = 3 /\ cell[1] \in 0..29 /\ cell[2] \in 0..23 /\ cell[3] \in 0..59
    THEN Some(cell[1] * MinutesPerDay + cell[2] * 60 + cell[3])
    ELSE NaN

week_order == <<"Monday", "Tuesday", "Wednesday", "Thursday", "Friday",
                "Saturday", "Sunday">>

\* weekday number (Monday = 0) of 2021-04-01, a Thursday
EpochWeekday == 3

day_name(t) ==
    IF isna(t) THEN NaN
    ELSE Some(week_order[(((t[1] \div MinutesPerDay) + EpochWeekday) % 7) + 1])

hour(t) == IF isna(t) THEN NaN ELSE Some((t[1] \div 60) % 24)

\* Timestamp.date()
date(t) == t[1] \div MinutesPerDay

read_csv(file) ==
    [i \in 1..Len(file) |->
        LET Departure == to_datetime(file[i].Departure)
        IN  [index |-> i - 1,
             dep |-> file[i].dep, ret |-> file[i].ret,
             Departure |-> Departure,
             dist |-> file[i].dist, dur |-> file[i].dur,
             Weekday |-> day_name(Departure),
             Hour |-> hour(Departure)]]

column(rows, name) == [i \in 1..Len(rows) |-> rows[i][name]]

seed == 42

base_lat == 601699

base_lon == 249384

lat_scale == 200

lon_scale == 300

\* np.random.normal(0, scale): the next draw of the seeded stream
normal(rng, scale) == [seed |-> rng.seed, draw |-> rng.pos + 1, scale |-> scale]

RECURSIVE synthesize(_, _, _)
\* the loop of lines 23-26 over all_stations
synthesize(names, rng, coords) ==
    IF names = <<>> THEN coords
    ELSE LET name == Head(names)
             lat == [base |-> base_lat, offset |-> normal(rng, lat_scale)]
             rng1 == [rng EXCEPT !.pos = @ + 1]
             lon == [base |-> base_lon, offset |-> normal(rng1, lon_scale)]
             rng2 == [rng1 EXCEPT !.pos = @ + 1]
             entry == [n \in {name} |-> <<lat, lon>>]
         IN  synthesize(Tail(names), rng2,
                        [n \in DOMAIN coords \cup {name} |->
                            IF n = name THEN entry[n] ELSE coords[n]])

\* the return stations left out of the concatenation
all_stations_departures(deps, rets) == np_unique(deps)

all_stations(deps, rets) == np_unique(deps \o rets)

EmptyDict == [n \in {} |-> NaN]

build_station_coords(deps, rets) ==
    synthesize(all_stations(deps, rets), [seed |-> seed, pos |-> 0], EmptyDict)

NoQuery == [called |-> FALSE]

NoResult == [called |-> FALSE]

Init ==
    /\ csv \in SeqsUpTo(CsvRows, MaxRows)
    /\ pc = "start"
    /\ df = <<>>
    /\ departure_stations = <<>>
    /\ return_stations = <<>>
    /\ station_coords = EmptyDict
    /\ query = NoQuery
    /\ trip_df = <<>>
    /\ result = NoResult
    /\ first = NoResult
    /\ varied = FALSE

\* the layout reads departure_stations[0] and return_stations[0], which raise
\* IndexError on an empty array
layout_builds(deps, rets) == deps # <<>> /\ rets # <<>>

Load ==
    /\ pc = "start"
    /\ LET table == read_csv(csv)
           deps == sort(unique(dropna(column(table, "dep"))))
           rets == sort(unique(dropna(column(table, "ret"))))
       IN  /\ df' = table
           /\ departure_stations' = deps
           /\ return_stations' = rets
           /\ station_coords' = build_station_coords(deps, rets)
           /\ pc' = IF layout_builds(deps, rets) THEN "serving" ELSE "failed"
    /\ UNCHANGED <<csv, query, trip_df, result, first, varied>>

(***************************************************************************)
(* update_dashboard: lines 117-162                                         *)
(***************************************************************************)
\* pd.to_datetime(start_date) on a 'YYYY-MM-DD' string or None: midnight of
\* that day, or NaT
date_to_datetime(d) == IF isna(d) THEN NaN ELSE Some(d[1] * MinutesPerDay)

\* elementwise comparisons; a missing operand on either side gives False
eq(a, b) == ~isna(a) /\ ~isna(b) /\ a = b

ge(a, b) == ~isna(a) /\ ~isna(b) /\ a[1] >= b[1]

le(a, b) == ~isna(a) /\ ~isna(b) /\ a[1] <= b[1]

isin(a, values) == ~isna(a) /\ a[1] \in values

filt(row, dep_station, ret_station, start_date, end_date, weekdays) ==
    /\ eq(row.dep, dep_station)
    /\ eq(row.ret, ret_station)
    /\ ge(row.Departure, date_to_datetime(start_date))
    /\ le(row.Departure, date_to_datetime(end_date))
    /\ isin(row.Weekday, weekdays)

RECURSIVE sum(_)
sum(vals) == IF vals = <<>> THEN 0 ELSE Head(vals)[1] + sum(Tail(vals))

Number(n, d) == [nan |-> FALSE, num |-> n, den |-> d]

NotANumber == [nan |-> TRUE]

Zero == Number(0, 1)

\* Series.mean(): missing values are skipped; the mean of nothing is nan
mean(col) ==
    LET vals == dropna(col)
    IN  IF vals = <<>> THEN NotANumber ELSE Number(sum(vals), Len(vals))

divide(x, k) == IF x.nan THEN x ELSE Number(x.num, x.den * k)

\* the mean taken without the emptiness guard
avg_dist_unguarded(rows) == divide(mean(column(rows, "dist")), 1000)

avg_dist(rows) == IF rows # <<>> THEN divide(mean(column(rows, "dist")), 1000) ELSE Zero

avg_dur(rows) == IF rows # <<>> THEN divide(mean(column(rows, "dur")), 60) ELSE Zero

Marker(position, label, name) ==
    [type |-> "Marker", position |-> position, popup |-> <<label, name>>]

markers(dep_station, ret_station, coords) ==
    (IF dep_station \in DOMAIN coords
     THEN <<Marker(coords[dep_station], "Departure: ", dep_station)>> ELSE <<>>)
    \o (IF ret_station \in DOMAIN coords
        THEN <<Marker(coords[ret_station], "Return: ", ret_station)>> ELSE <<>>)

\* the line drawn whenever the return station has a coordinate
polyline_return_only(dep_station, ret_station, coords) ==
    IF ret_station \in DOMAIN coords
    THEN <<[type |-> "Polyline",
            positions |-> <<IF dep_station \in DOMAIN coords THEN coords[dep_station] ELSE NaN,
                            coords[ret_station]>>,
            tooltip |-> <<dep_station, ret_station>>]>>
    ELSE <<>>

polyline(dep_station, ret_station, coords) ==
    IF dep_station \in DOMAIN coords /\ ret_station \in DOMAIN coords
    THEN <<[type |-> "Polyline",
            positions |-> <<coords[dep_station], coords[ret_station]>>,
            tooltip |-> <<dep_station, ret_station>>]>>
    ELSE <<>>

\* the day names in str order, the order in which groupby emits its keys
sorted_day_names == <<"Friday", "Monday", "Saturday", "Sunday", "Thursday",
                      "Tuesday", "Wednesday">>

RECURSIVE groupby_size(_, _)
\* hour_df.groupby('Weekday').size().reset_index(name='Trips')
groupby_size(rows, keys) ==
    IF keys = <<>> THEN <<>>
    ELSE LET n == Cardinality({i \in 1..Len(rows) : rows[i].Weekday = Some(Head(keys))})
         IN  (IF n > 0 THEN <<[Weekday |-> Head(keys), Trips |-> n]>> ELSE <<>>)
             \o groupby_size(rows, Tail(keys))

RECURSIVE sort_values(_, _)
\* sort on the ordered Categorical with the given categories
sort_values(data, categories) ==
    IF categories = <<>> THEN <<>>
    ELSE SelectRows(data, [i \in 1..Len(data) |-> data[i].Weekday = Head(categories)], 1)
         \o sort_values(data, Tail(categories))

\* the grouped counts left in groupby's key order
heat_data_unsorted(rows, selected_hour) ==
    LET hour_df == SelectRows(rows, [i \in 1..Len(rows) |-> eq(rows[i].Hour, Some(selected_hour))], 1)
    IN  groupby_size(hour_df, sorted_day_names)

heat_data(rows, selected_hour) ==
    LET hour_df == SelectRows(rows, [i \in 1..Len(rows) |-> eq(rows[i].Hour, Some(selected_hour))], 1)
    IN  sort_values(groupby_size(hour_df, sorted_day_names), week_order)

heatmap_fig(rows, selected_hour) ==
    IF rows = <<>>
    THEN [fig |-> "imshow", x |-> <<0>>, y |-> <<"No Data">>, z |-> <<0>>]
    ELSE [fig |-> "bar", data |-> heat_data(rows, selected_hour), hour |-> selected_hour]

Query(dep_station, ret_station, start_date, end_date, weekdays, selected_hour) ==
    [called |-> TRUE, dep_station |-> dep_station, ret_station |-> ret_station,
     start_date |-> start_date, end_date |-> end_date, weekdays |-> weekdays,
     selected_hour |-> selected_hour]

matching(table, dep_station, ret_station, start_date, end_date, weekdays) ==
    SelectRows(table,
               [i \in 1..Len(table) |->
                   filt(table[i], dep_station, ret_station, start_date, end_date, weekdays)],
               1)

outputs(rows, dep_station, ret_station, selected_hour, coords) ==
    [called |-> TRUE,
     trip_count |-> Len(rows),
     avg_dist |-> avg_dist(rows),
     avg_dur |-> avg_dur(rows),
     map |-> markers(dep_station, ret_station, coords)
             \o polyline(dep_station, ret_station, coords),
     heatmap_fig |-> heatmap_fig(rows, selected_hour)]

\* the filtered frame assigned back to the global df
update_dashboard_narrowing(dep_station, ret_station, start_date, end_date, weekdays, selected_hour) ==
    LET rows == matching(df, dep_station, ret_station, start_date, end_date, weekdays)
    IN  /\ query' = Query(dep_station, ret_station, start_date, end_date, weekdays, selected_hour)
        /\ trip_df' = rows
        /\ result' = outputs(rows, dep_station, ret_station, selected_hour, station_coords)
        /\ df' = rows
        /\ UNCHANGED <<csv, departure_stations, return_stations, station_coords>>

update_dashboard(dep_station, ret_station, start_date, end_date, weekdays, selected_hour) ==
    LET rows == matching(df, dep_station, ret_station, start_date, end_date, weekdays)
    IN  /\ query' = Query(dep_station, ret_station, start_date, end_date, weekdays, selected_hour)
        /\ trip_df' = rows
        /\ result' = outputs(rows, dep_station, ret_station, selected_hour, station_coords)
        /\ UNCHANGED <<csv, df, departure_stations, return_stations, station_coords>>

(***************************************************************************)
(* Widget values: lines 40-74 and 99                                       *)
(***************************************************************************)
RECURSIVE min(_)
min(vals) ==
    IF Len(vals) = 1 THEN Head(vals)
    ELSE LET m == min(Tail(vals)) IN IF Head(vals)[1] <= m[1] THEN Head(vals) ELSE m

RECURSIVE max(_)
max(vals) ==
    IF Len(vals) = 1 THEN Head(vals)
    ELSE LET m == max(Tail(vals)) IN IF Head(vals)[1] >= m[1] THEN Head(vals) ELSE m

\* df['Departure'].min().date(); NaT (None once serialised) if no row has
\* a timestamp
min_date(table) ==
    LET vals == dropna(column(table, "Departure"))
    IN  IF vals = <<>> THEN NaN ELSE Some(date(min(vals)))

max_date(table) ==
    LET vals == dropna(column(table, "Departure"))
    IN  IF vals = <<>> THEN NaN ELSE Some(date(max(vals)))

weekday_options(table) == {w[1] : w \in Range(unique(dropna(column(table, "Weekday"))))}

\* the dates the picker offers: min_date_allowed .. max_date_allowed
date_options(table) ==
    IF isna(min_date(table)) THEN {NaN}
    ELSE {Some(d) : d \in min_date(table)[1]..max_date(table)[1]}

\* a dropdown holds one of its options, or None once cleared
dropdown_options(stations) == Range(stations) \cup {NaN}

\* Dash runs the callback once with the layout's initial values
PageLoad ==
    /\ pc = "serving"
    /\ update_dashboard(departure_stations[1], return_stations[1],
                        min_date(df), max_date(df), weekday_options(df), 0)
    /\ first' = [called |-> TRUE, query |-> query', result |-> result']
    /\ varied' = FALSE
    /\ pc' = "interactive"

\* Each Input of the callback (lines 110-115): changing one widget calls
\* update_dashboard with the new value and the current values of the others
SelectDeparture ==
    /\ pc = "interactive"
    /\ \E dep_station \in dropdown_options(departure_stations) :
          update_dashboard(dep_station, query.ret_station, query.start_date,
                           query.end_date, query.weekdays, query.selected_hour)
    /\ varied' = (varied \/ query' # first.query)
    /\ UNCHANGED <<pc, first>>

SelectReturn ==
    /\ pc = "interactive"
    /\ \E ret_station \in dropdown_options(return_stations) :
          update_dashboard(query.dep_station, ret_station, query.start_date,
                           query.end_date, query.weekdays, query.selected_hour)
    /\ varied' = (varied \/ query' # first.query)
    /\ UNCHANGED <<pc, first>>

PickStartDate ==
    /\ pc = "interactive"
    /\ \E start_date \in date_options(df) :
          update_dashboard(query.dep_station, query.ret_station, start_date,
                           query.end_date, query.weekdays, query.selected_hour)
    /\ varied' = (varied \/ query' # first.query)
    /\ UNCHANGED <<pc, first>>

PickEndDate ==
    /\ pc = "interactive"
    /\ \E end_date \in date_options(df) :
          update_dashboard(query.dep_station, query.ret_station, query.start_date,
                           end_date, query.weekdays, query.selected_hour)
    /\ varied' = (varied \/ query' # first.query)
    /\ UNCHANGED <<pc, first>>

ToggleWeekday ==
    /\ pc = "interactive"
    /\ \E day \in weekday_options(df) :
          update_dashboard(query.dep_station, query.ret_station, query.start_date,
                           query.end_date,
                           IF day \in query.weekdays THEN query.weekdays \ {day}
                           ELSE query.weekdays \cup {day},
                           query.selected_hour)
    /\ varied' = (varied \/ query' # first.query)
    /\ UNCHANGED <<pc, first>>

MoveSlider ==
    /\ pc = "interactive"
    /\ \E selected_hour \in SliderHours :
          update_dashboard(query.dep_station, query.ret_station, query.start_date,
                           query.end_date, query.weekdays, selected_hour)
    /\ varied' = (varied \/ query' # first.query)
    /\ UNCHANGED <<pc, first>>

Next ==
    \/ Load
    \/ PageLoad
    \/ SelectDeparture
    \/ SelectReturn
    \/ PickStartDate
    \/ PickEndDate
    \/ ToggleWeekday
    \/ MoveSlider

Spec == Init /\ [][Next]_vars

(***************************************************************************)
(* Properties                                                              *)
(***************************************************************************)
Loaded == pc \in {"serving", "interactive"}

\* row i of df is one of the rows of trip_df
InTrip(i) == \E j \in 1..Len(trip_df) : trip_df[j].index = df[i].index

StationsMatch(row, q) ==
    /\ ~isna(row.dep) /\ row.dep = q.dep_station
    /\ ~isna(row.ret) /\ row.ret = q.ret_station

WeekdayMatches(row, q) == ~isna(row.Weekday) /\ row.Weekday[1] \in q.weekdays

\* the departure falls on a day of start_date .. end_date, both days included
InDateRange(row, q) ==
    /\ ~isna(row.Departure) /\ ~isna(q.start_date) /\ ~isna(q.end_date)
    /\ q.start_date[1] <= date(row.Departure)
    /\ date(row.Departure) <= q.end_date[1]

FourClauses(row, q) ==
    StationsMatch(row, q) /\ InDateRange(row, q) /\ WeekdayMatches(row, q)

\* C1: the trip_count of every call equals the number of rows of the dataset
\* that satisfy the two station clauses, the date-range clause and the
\* weekday clause together.
C1_TripCountIsFourClauseCount ==
    result.called =>
        result.trip_count = Cardinality({i \in 1..Len(df) : FourClauses(df[i], query)})

\* C2: among the rows with a timestamp that satisfy the station and weekday
\* clauses, a row is in the matching subset exactly when its departure day
\* lies in start_date .. end_date, the end_date day included at any time of
\* day.
C2_DateRangeInclusive ==
    result.called =>
        \A i \in 1..Len(df) :
            (~isna(df[i].Departure) /\ StationsMatch(df[i], query)
                /\ WeekdayMatches(df[i], query))
            => (InTrip(i) <=> InDateRange(df[i], query))

ZeroFigure == [fig |-> "imshow", x |-> <<0>>, y |-> <<"No Data">>, z |-> <<0>>]

RECURSIVE SumOver(_, _, _)
SumOver(table, S, name) ==
    IF S = {} THEN 0
    ELSE LET i == CHOOSE k \in S : TRUE
         IN  table[i][name][1] + SumOver(table, S \ {i}, name)

\* avg is the mean of column name, divided by unit, over the rows of the
\* matching subset where the column is present; 0 on an empty subset; and a
\* number in every case
DefinedMean(avg, name, unit) ==
    LET present == {i \in 1..Len(df) : InTrip(i) /\ ~isna(df[i][name])}
    IN  /\ ~avg.nan
        /\ trip_df = <<>> => avg.num = 0
        /\ present # {} =>
              avg.num * (unit * Cardinality(present)) = SumOver(df, present, name) * avg.den

\* C4: avg_distance_km is the mean of distance/1000 over the matching rows
\* that have a distance, avg_duration_min the mean of duration/60 over those
\* that have a duration, each 0 when nothing matches, and each a defined
\* number for every query.
C4_AveragesAreDefinedMeans ==
    result.called =>
        /\ DefinedMean(result.avg_dist, "dist", 1000)
        /\ DefinedMean(result.avg_dur, "dur", 60)

\* a Departure cell that does not parse: empty, or with an impossible time
Unparsable(cell) == cell = NaN \/ cell[2] > 23 \/ cell[3] > 59

RECURSIVE without_unparsable(_, _)
without_unparsable(table, i) ==
    IF i > Len(table) THEN <<>>
    ELSE (IF Unparsable(csv[i].Departure) THEN <<>> ELSE <<table[i]>>)
         \o without_unparsable(table, i + 1)

\* C5: a row whose Departure cell does not parse stays in df with a null
\* Departure, Weekday and Hour, is in the matching subset of no query, and
\* every result is the one the same query gives on the dataset without
\* those rows.
C5_UnparsableDepartureNeverMatches ==
    Loaded =>
        /\ Len(df) = Len(csv)
        /\ \A i \in 1..Len(df) :
              Unparsable(csv[i].Departure) =>
                  /\ isna(df[i].Departure) /\ isna(df[i].Weekday) /\ isna(df[i].Hour)
                  /\ result.called => ~InTrip(i)
        /\ result.called =>
              result = outputs(matching(without_unparsable(df, 1),
                                        query.dep_station, query.ret_station,
                                        query.start_date, query.end_date, query.weekdays),
                               query.dep_station, query.ret_station,
                               query.selected_hour, station_coords)

\* a query that matches a trip of the station pair of an unparsable row
C5_Witness ==
    /\ result.called
    /\ result.trip_count > 0
    /\ \E i \in 1..Len(df) :
          Unparsable(csv[i].Departure) /\ StationsMatch(df[i], query)

CanonicalIndex(day) == CHOOSE k \in 1..7 : week_order[k] = day

\* C6: for a non-empty matching subset the bar data list weekdays in
\* Monday..Sunday order, each listed count (0 for a day not listed) is the
\* number of matching rows of that weekday at the selected hour, and the
\* counts sum to at most trip_count.
C6_HourlyBreakdown ==
    (result.called /\ trip_df # <<>>) =>
        LET data == result.heatmap_fig.data
            listed(day) == {k \in 1..Len(data) : data[k].Weekday = day}
            count(day) == IF listed(day) = {} THEN 0
                          ELSE data[CHOOSE k \in listed(day) : TRUE].Trips
            rows(day) == {j \in 1..Len(trip_df) :
                             /\ trip_df[j].Weekday = Some(day)
                             /\ trip_df[j].Hour = Some(query.selected_hour)}
        IN  /\ result.heatmap_fig.fig = "bar"
            /\ \A k \in 1..Len(data) : data[k].Weekday \in Range(week_order) /\ data[k].Trips > 0
            /\ \A k \in 1..Len(data) - 1 :
                  CanonicalIndex(data[k].Weekday) < CanonicalIndex(data[k + 1].Weekday)
            /\ \A day \in Range(week_order) : count(day) = Cardinality(rows(day))
            /\ Cardinality(UNION {rows(day) : day \in Range(week_order)}) <= result.trip_count

\* two weekdays have trips at the selected hour
C6_Witness ==
    /\ result.called
    /\ trip_df # <<>>
    /\ Len(result.heatmap_fig.data) >= 2

\* C7: whenever the query of the page-load call is issued again, after
\* whatever other queries, the result is the one the page-load call gave,
\* and df and station_coords are still as loaded.
C7_SameQuerySameResult ==
    pc = "interactive" =>
        /\ df = read_csv(csv)
        /\ station_coords = build_station_coords(departure_stations, return_stations)
        /\ query = first.query => result = first.result

\* the first query re-issued after a different one that matched other rows
C7_Witness ==
    /\ pc = "interactive"
    /\ varied
    /\ query = first.query
    /\ result.trip_count > 0

\* the non-null names of the two station columns of the file
NameSet == ({csv[i].dep : i \in 1..Len(csv)} \cup {csv[i].ret : i \in 1..Len(csv)}) \ {NaN}

\* C8: after load station_coords has an entry, a (lat, lon) pair on the
\* base point, for exactly the non-null names of the departure and return
\* columns, so every dropdown option has a coordinate.
C8_OneCoordinatePerStation ==
    Loaded =>
        /\ DOMAIN station_coords = NameSet
        /\ \A n \in DOMAIN station_coords :
              /\ Len(station_coords[n]) = 2
              /\ station_coords[n][1].base = base_lat
              /\ station_coords[n][2].base = base_lon
        /\ Range(departure_stations) \cup Range(return_stations) \subseteq DOMAIN station_coords

\* a station that occurs in the return column only, in a file with an empty
\* station cell
C8_Witness ==
    /\ Loaded
    /\ \E n \in DOMAIN station_coords : n \notin Range(departure_stations)
    /\ \E i \in 1..Len(csv) : isna(csv[i].dep)

\* C9: the coordinates depend only on the set of names: the k-th name in
\* lexicographic order has draw 2k-1 of the seed-42 stream as latitude
\* offset and draw 2k as longitude offset.
C9_CoordinatesByLexicographicRank ==
    Loaded =>
        LET names == NameSet
            rank(n) == Cardinality({m \in names : m = n \/ StrLess(m, n)})
        IN  /\ DOMAIN station_coords = names
            /\ \A n \in names :
                  /\ station_coords[n][1].offset =
                        [seed |-> 42, draw |-> 2 * rank(n) - 1, scale |-> lat_scale]
                  /\ station_coords[n][2].offset =
                        [seed |-> 42, draw |-> 2 * rank(n), scale |-> lon_scale]

\* the file names "B" before "AB", which precedes it lexicographically
C9_Witness ==
    /\ Loaded
    /\ Cardinality(DOMAIN station_coords) = 2
    /\ csv[1].dep = <<66>>
    /\ csv[1].ret = <<65, 66>>

\* C10: the map has a departure marker iff dep_station is a key of
\* station_coords, a return marker iff ret_station is, one polyline joining
\* the two iff both are, and nothing else, whatever the matching subset.
C10_MapShowsSelectedStations ==
    result.called =>
        LET map == result.map
            has_dep == query.dep_station \in DOMAIN station_coords
            has_ret == query.ret_station \in DOMAIN station_coords
            dep_markers == {k \in 1..Len(map) :
                               map[k].type = "Marker" /\ map[k].popup[1] = "Departure: "}
            ret_markers == {k \in 1..Len(map) :
                               map[k].type = "Marker" /\ map[k].popup[1] = "Return: "}
            lines == {k \in 1..Len(map) : map[k].type = "Polyline"}
        IN  /\ Cardinality(dep_markers) = (IF has_dep THEN 1 ELSE 0)
            /\ Cardinality(ret_markers) = (IF has_ret THEN 1 ELSE 0)
            /\ Cardinality(lines) = (IF has_dep /\ has_ret THEN 1 ELSE 0)
            /\ Len(map) = Cardinality(dep_markers) + Cardinality(ret_markers) + Cardinality(lines)
            /\ \A k \in dep_markers : map[k].position = station_coords[query.dep_station]
            /\ \A k \in ret_markers : map[k].position = station_coords[query.ret_station]
            /\ \A k \in lines :
                  map[k].positions = <<station_coords[query.dep_station],
                                       station_coords[query.ret_station]>>

\* the return dropdown is set and the departure dropdown cleared
C10_Witness ==
    /\ result.called
    /\ isna(query.dep_station)
    /\ query.ret_station \in DOMAIN station_coords
    /\ Len(result.map) = 1
====
